---- MODULE Spec2Model ----
(***************************************************************************)
(* Deposit poller (src/src/poller.rs), exchange trading client             *)
(* (src/src/kraken.rs) and swap execution controller (src/src/lockin.rs)   *)
(* of coinlocker.                                                          *)
(*                                                                         *)
(* Units.  Asset amounts (BTC, SOL) are integers in millionths of the      *)
(* asset (0.0001 = 100); on-chain amounts are lamports (1 SOL = 10^9).     *)
(* f64 arithmetic is modelled by exact integer arithmetic; a non-finite    *)
(* f64 stored in JSON is modelled by Null, as serde_json stores it.        *)
(***************************************************************************)
EXTENDS Integers, Sequences, FiniteSets, TLC

VARIABLES
    \* ---- record store ----
    txs,        \* transactions collection: address -> document
    users,      \* users collection: user_id -> document
    \* ---- poller task ----
    pc,         \* "idle" (between cycles), "cycle" (inside poll_kraken's loop), "crashed"
    remaining,  \* entries of the exchange response not yet iterated in this cycle
    handled,    \* loop iterations of poll_kraken run so far
    \* ---- observations of the poller's external effects ----
    sells,      \* address -> number of BTCUSD sell orders submitted to the exchange
    credits,    \* address -> number of total_deposit increments written
    procWrites, \* address -> number of {processed: true} writes issued
    spawned,    \* address -> number of per-deposit on-chain tasks dispatched by spawn()
    last,       \* what the last loop iteration of poll_kraken saw and did
    \* ---- one per-deposit on-chain task (spawn body + LockinClient::execute) ----
    task,       \* record, see TaskInit
    \* ---- one call of kraken::execute_swap ----
    swap,       \* record, see SwapInit
    \* ---- one request to POST /register (handlers/register.rs) ----
    reg         \* record, see RegisterFind

pollerVars == <<txs, users, pc, remaining, handled, sells, credits, procWrites, spawned, last>>
vars == <<txs, users, pc, remaining, handled, sells, credits, procWrites, spawned, last, task, swap,
          reg>>

\* ------------------------------------------------------------------ bounds
MaxHandled == 3
MaxReported == 2

\* ------------------------------------------------------------------ JSON values
Null == <<>>
Num(x) == <<x>>
\* serde_json: Value::as_f64().unwrap_or(d)
as_f64_or(v, d) == IF v = Null THEN d ELSE v[1]
\* f64 division stored with json!(): a non-finite quotient is stored as null
json_div(n, d) == IF d = 0 THEN Null ELSE Num(n \div d)

\* ------------------------------------------------------------------ inputs
\* addresses that have a transaction document, and one that has none
Addresses == {"a1", "a2"}
UnknownAddress == "a0"
UserIds == {"u1", "u2"}
Statuses == {"Pending", "Success"}
\* amounts the exchange may report, in millionths of a BTC
Amounts == {-1000, 50, 1000}
\* one entry of the DepositStatus response; parse_ok = FALSE is an amount
\* string that str::parse::<f64> rejects
Entries ==
    [info : Addresses \cup {UnknownAddress}, amount : Amounts, status : Statuses, parse_ok : {TRUE}]
    \cup [info : {"a1"}, amount : {0}, status : {"Success"}, parse_ok : {FALSE}]
\* ticker prices seen by the four get_asset_value calls of one conversion chain
\* (btc, sol_sell: the sell order; sol_buy, sol_buy2: the buy order)
DefaultQuote == [btc |-> 1500, sol_sell |-> 1, sol_buy |-> 1, sol_buy2 |-> 1]
Quotes ==
    { DefaultQuote,
      [btc |-> 60,  sol_sell |-> 10, sol_buy |-> 10, sol_buy2 |-> 10],
      [btc |-> 600, sol_sell |-> 10, sol_buy |-> 10, sol_buy2 |-> 0],
      [btc |-> 600, sol_sell |-> 0,  sol_buy |-> 10, sol_buy2 |-> 10] }
\* keys stored in solana_public_key that Pubkey::from_str accepts
ValidKeys == {"K1", "K2"}
\* the external call of one loop iteration that returns an error ("none": no call fails)
FailPoints ==
    { "none", "tx_find", "user_find", "status_update", "deposit_update",
      "sell_price", "sell_order", "buy_price", "buy_order", "withdraw",
      "purchased_update", "processed_update" }

\* ------------------------------------------------------------------ kraken.rs
BTC_MIN_VOLUME == 100

pair_asset(pair) == IF pair = "BTCUSD" THEN "BTC" ELSE "SOL"

check_minimum_volume(asset, volume) ==
    LET min_volume == IF asset = "BTC" THEN BTC_MIN_VOLUME ELSE 0
    IN  IF volume < min_volume THEN "Err" ELSE "Ok"

\* the errors get_asset_value and the AddOrder request end in: a transport
\* failure of reqwest, or an unusable answer of the exchange
PriceErrors == {"ReqwestError", "InternalServerError"}
OrderErrors == {"InternalServerError"}

\* execute_swap: res, the AppError variant returned, whether the AddOrder
\* request was sent, and the enriched response
\* price_error: "none", or the error of a failing get_asset_value call
execute_swap(pair, volume, asset_value_in_usd, sol_value_in_usd, price_error, order_fails) ==
    LET failed(e) ==
            [res |-> "Err", err |-> e, submitted |-> FALSE,
             notional_usd_value |-> Null, notional_sol_value |-> Null]
    IN
    IF check_minimum_volume(pair_asset(pair), volume) = "Err" THEN failed("InternalServerError")
    ELSE IF price_error # "none" THEN failed(price_error)
    ELSE LET notional_usd_value == volume * asset_value_in_usd
         IN  [res |-> IF order_fails THEN "Err" ELSE "Ok",
              err |-> IF order_fails THEN "InternalServerError" ELSE "none",
              submitted |-> TRUE,
              notional_usd_value |-> Num(notional_usd_value),
              notional_sol_value |-> json_div(notional_usd_value, sol_value_in_usd)]

\* ------------------------------------------------------------------ poller.rs
MIN_SWAP_AMOUNT == 100
MIN_WITHDRAW_AMOUNT == 100
POLLER_SLIPPAGE_BPS == 1500

\* Pubkey::from_str(..).unwrap_or_else(|_| Pubkey::default())
parse_pubkey(found_address) == IF found_address \in ValidKeys THEN found_address ELSE "default"

\* should_process_transaction: tx is the document read BEFORE the status update.
\* The guard evaluates tx.get_bool("processed").unwrap() only when the stored
\* status is "Success"; it panics there when the field is absent.
should_process_panics(tx) == tx.status = "Success" /\ ~tx.has_processed
\* mutant: the processed flag is not consulted
should_process_transactionNoFlag(tx) == tx.status = "Success"
should_process_transaction(tx) == tx.status = "Success" /\ ~tx.processed

\* the ? applied to the Result of an exchange call: an Err leaves the function
returns_errNever(response) == FALSE
returns_err(response) == response.res = "Err"

\* the value of {"$set": {"total_purchased": ..}} at the end of the chain
total_purchased_valueOff(new_total_deposit) == new_total_deposit + MIN_SWAP_AMOUNT
total_purchased_value(new_total_deposit) == new_total_deposit

\* process_successful_transaction: the conversion chain of one deposit.
\* f names the failing external call, q the prices the exchange quotes.
\* steps: the exchange requests sent and the spawn, in order; failed_step: the
\* step of the chain whose call returned the error; priced: the amount passed
\* the two checks, so the exchange is asked for prices.
process_successful_transaction(amount, user_sol_address, user_id, new_total_deposit, usrs, f, q) ==
    LET swap_amount == amount
        out(res, steps, spawn, u, failed_step) ==
            [res |-> res, users |-> u, steps |-> steps, spawn |-> spawn, priced |-> TRUE,
             failed_step |-> failed_step]
    IN
    IF swap_amount <= 0 THEN [out("Ok", <<>>, {}, usrs, "none") EXCEPT !.priced = FALSE]
    ELSE IF swap_amount < MIN_SWAP_AMOUNT
    THEN [out("Err", <<>>, {}, usrs, "none") EXCEPT !.priced = FALSE]
    ELSE
    LET btc_usd_response ==
            execute_swap("BTCUSD", swap_amount, q.btc, q.sol_sell,
                         IF f = "sell_price" THEN "ReqwestError" ELSE "none", f = "sell_order")
        s1 == IF btc_usd_response.submitted THEN <<"sell">> ELSE <<>>
    IN
    IF returns_err(btc_usd_response) THEN out("Err", s1, {}, usrs, "sell")
    ELSE
    LET sol_amount ==
            as_f64_or(btc_usd_response.notional_sol_value,
                      as_f64_or(btc_usd_response.notional_usd_value, 0))
        usd_sol_response ==
            execute_swap("SOLUSD", sol_amount, q.sol_buy, q.sol_buy2,
                         IF f = "buy_price" THEN "ReqwestError" ELSE "none", f = "buy_order")
        s2 == IF usd_sol_response.submitted THEN Append(s1, "buy") ELSE s1
    IN
    IF returns_err(usd_sol_response) THEN out("Err", s2, {}, usrs, "buy")
    ELSE
    LET amount_to_withdraw == as_f64_or(usd_sol_response.notional_sol_value, 0)
        s3 == Append(s2, "withdraw")
        s4 == Append(s3, "spawn")
        t  == [amount |-> amount_to_withdraw,
               receiving_address |-> user_sol_address,
               slippage_bps |-> POLLER_SLIPPAGE_BPS]
    IN
    IF amount_to_withdraw < MIN_WITHDRAW_AMOUNT THEN out("Err", s2, {}, usrs, "none")
    ELSE IF f = "withdraw" THEN out("Err", s3, {}, usrs, "withdraw")
    ELSE IF f = "purchased_update" THEN out("Err", s4, {t}, usrs, "none")
    ELSE out("Ok", s4, {t},
             [usrs EXCEPT ![user_id].total_purchased =
                               total_purchased_value(new_total_deposit)], "none")

\* process_user_transaction: credit total_deposit, then run the chain when the
\* freshly reported status is "Success".
process_user_transaction(amount, user_id, status, user_doc, usrs, f, q) ==
    LET current_total_deposit == user_doc.total_deposit
        new_total_deposit == current_total_deposit + amount
        user_sol_address == parse_pubkey(user_doc.solana_public_key)
        usrs1 == [usrs EXCEPT ![user_id].total_deposit = new_total_deposit]
    IN
    IF f = "deposit_update"
    THEN [res |-> "Err", users |-> usrs, steps |-> <<>>, spawn |-> {},
          chain |-> FALSE, priced |-> FALSE, credited |-> FALSE, failed_step |-> "none"]
    ELSE IF status = "Success"
    THEN LET r == process_successful_transaction(
                      amount, user_sol_address, user_id, new_total_deposit, usrs1, f, q)
         IN  [res |-> r.res, users |-> r.users, steps |-> r.steps, spawn |-> r.spawn,
              chain |-> TRUE, priced |-> r.priced, credited |-> TRUE,
              failed_step |-> r.failed_step]
    ELSE [res |-> "Ok", users |-> usrs1, steps |-> <<>>, spawn |-> {},
          chain |-> FALSE, priced |-> FALSE, credited |-> TRUE, failed_step |-> "none"]

\* the ? after process_user_transaction(..).await in handle_transaction
propagatesNever(res) == FALSE
propagates(res) == res = "Err"

\* handle_transaction: res is "Ok", "Err" (returned with ?) or "Panic".
handle_transaction(user_id, amount, address, status, tx, t0, usrs, f, q) ==
    LET nothing(res, t, u) ==
            [res |-> res, txs |-> t, users |-> u, steps |-> <<>>, spawn |-> {},
             chain |-> FALSE, priced |-> FALSE, credited |-> FALSE, mark_issued |-> FALSE,
             failed_step |-> "none",
             user_found |-> user_id \in DOMAIN usrs]
        t1 == [t0 EXCEPT ![address].status = status]
    IN
    IF f = "user_find" THEN [nothing("Err", t0, usrs) EXCEPT !.user_found = FALSE]
    ELSE IF user_id \notin DOMAIN usrs THEN nothing("Ok", t0, usrs)
    ELSE IF f = "status_update" THEN nothing("Err", t0, usrs)
    ELSE IF should_process_panics(tx) THEN nothing("Panic", t1, usrs)
    ELSE IF ~should_process_transaction(tx) THEN nothing("Ok", t1, usrs)
    ELSE
    LET r == process_user_transaction(amount, user_id, status, usrs[user_id], usrs, f, q)
        done(res, t, issued) ==
            [res |-> res, txs |-> t, users |-> r.users, steps |-> r.steps, spawn |-> r.spawn,
             chain |-> r.chain, priced |-> r.priced, credited |-> r.credited,
             mark_issued |-> issued, failed_step |-> r.failed_step,
             user_found |-> TRUE]
    IN
    IF propagates(r.res) THEN done("Err", t1, FALSE)
    ELSE IF f = "processed_update" THEN done("Err", t1, TRUE)
    ELSE done("Ok",
              [t1 EXCEPT ![address].processed = TRUE, ![address].has_processed = TRUE],
              TRUE)

\* transactions_collection.find_one(doc! { "address": address }): the keys of
\* the documents matching the filter
find_oneAny(t0, address) == DOMAIN t0
find_one(t0, address) == {a \in DOMAIN t0 : a = address}

\* One iteration of the for loop of poll_kraken over the entry e.
poll_entry(e, t0, usrs, f, q) ==
    LET skip(res) ==
            [res |-> res, txs |-> t0, users |-> usrs, steps |-> <<>>, spawn |-> {},
             chain |-> FALSE, priced |-> FALSE, credited |-> FALSE, mark_issued |-> FALSE,
             failed_step |-> "none", user_found |-> FALSE]
        found == find_one(t0, e.info)
    IN
    IF ~e.parse_ok THEN skip("Err")
    ELSE IF f = "tx_find" THEN skip("Err")
    ELSE IF found = {} THEN skip("Ok")
    ELSE LET tx == t0[CHOOSE a \in found : TRUE]
         IN  handle_transaction(tx.user_id, e.amount, e.info, e.status, tx, t0, usrs, f, q)

\* ------------------------------------------------------------------ poller actions
NoTask == [pc |-> "none"]
NoSwap == [pc |-> "none"]
NoRequest == [pc |-> "none"]

NoEntry ==
    [info |-> UnknownAddress, status |-> "Pending", found |-> FALSE,
     stored_status |-> "Pending", stored_processed |-> FALSE,
     res |-> "Ok", user_found |-> FALSE, credited |-> FALSE, chain |-> FALSE,
     mark_issued |-> FALSE, steps |-> <<>>, failed_step |-> "none", spawn |-> {}, skipped |-> 0]

PollerInit ==
    \* a1: a deposit of user u1; a2: a deposit of u2 (who has no Solana key), or of
    \* a user with no user document, or one stored without a boolean processed field
    /\ txs \in { [a \in Addresses |->
                    [user_id |-> IF a = "a1" THEN "u1" ELSE c[1],
                     status |-> "Pending",
                     processed |-> FALSE,
                     has_processed |-> IF a = "a1" THEN TRUE ELSE c[2]]] :
                 c \in {<<"u2", TRUE>>, <<"u3", TRUE>>, <<"u2", FALSE>>} }
    /\ users = [u \in UserIds |->
                    [total_deposit |-> 0, total_purchased |-> 0,
                     solana_public_key |-> IF u = "u1" THEN "K1" ELSE ""]]
    /\ pc = "idle"
    /\ remaining = 0
    /\ handled = 0
    /\ sells = [a \in Addresses |-> 0]
    /\ credits = [a \in Addresses |-> 0]
    /\ procWrites = [a \in Addresses |-> 0]
    /\ spawned = [a \in Addresses |-> 0]
    /\ last = NoEntry

\* start_poller's tick and the head of poll_kraken: the collections are opened
\* and the deposit-status list fetched; any of these failing ends the cycle.
PollStartDetached ==
    /\ pc \in {"idle", "cycle"}
    /\ \E n \in 1..MaxReported : remaining' = remaining + n /\ pc' = "cycle"
    /\ UNCHANGED <<txs, users, handled, sells, credits, procWrites, spawned, last, task, swap, reg>>

PollStart ==
    /\ pc = "idle"
    /\ \E n \in 0..MaxReported :
          /\ remaining' = n
          /\ pc' = IF n > 0 THEN "cycle" ELSE "idle"
    /\ UNCHANGED <<txs, users, handled, sells, credits, procWrites, spawned, last, task, swap, reg>>

Count(steps, x) == Cardinality({i \in DOMAIN steps : steps[i] = x})

\* what one iteration writes and how it leaves the loop
Effects(e, r) ==
    /\ txs' = r.txs
    /\ users' = r.users
    /\ spawned' = IF e.info \in Addresses
                  THEN [spawned EXCEPT ![e.info] = @ + Cardinality(r.spawn)] ELSE spawned
    /\ sells' = IF e.info \in Addresses
                THEN [sells EXCEPT ![e.info] = @ + Count(r.steps, "sell")] ELSE sells
    /\ credits' = IF e.info \in Addresses /\ r.credited
                  THEN [credits EXCEPT ![e.info] = @ + 1] ELSE credits
    /\ procWrites' = IF e.info \in Addresses /\ r.mark_issued
                     THEN [procWrites EXCEPT ![e.info] = @ + 1] ELSE procWrites
    /\ last' = [info |-> e.info, status |-> e.status,
                found |-> e.info \in DOMAIN txs,
                stored_status |-> IF e.info \in DOMAIN txs THEN txs[e.info].status ELSE "Pending",
                stored_processed |-> IF e.info \in DOMAIN txs THEN txs[e.info].processed ELSE FALSE,
                res |-> r.res, user_found |-> r.user_found, credited |-> r.credited,
                chain |-> r.chain, mark_issued |-> r.mark_issued, steps |-> r.steps,
                failed_step |-> r.failed_step, spawn |-> r.spawn,
                skipped |-> IF r.res = "Ok" THEN 0 ELSE remaining - 1]
    \* an Err leaves poll_kraken through ?, a panic unwinds the poller task
    /\ pc' = IF r.res = "Panic" THEN "crashed"
             ELSE IF r.res = "Err" \/ remaining = 1 THEN "idle" ELSE "cycle"
    /\ remaining' = IF r.res = "Ok" THEN remaining - 1 ELSE 0

Commit(e, r) == Effects(e, r) /\ handled' = handled + 1

\* the external calls an iteration over e can reach (a failure of a call it never
\* makes changes nothing), and "none"
CallsOf(e, t0) ==
    IF ~e.parse_ok THEN {"none"}
    ELSE IF e.info \notin DOMAIN t0 THEN {"none", "tx_find"}
    ELSE IF ~should_process_transaction(t0[e.info])
         THEN {"none", "tx_find", "user_find", "status_update"}
         ELSE FailPoints

\* one iteration of the for loop of poll_kraken, with everything it calls
IterateEntry ==
    /\ pc = "cycle"
    /\ remaining > 0
    /\ handled < MaxHandled
    /\ \E e \in Entries : \E f \in CallsOf(e, txs) :
          \E r0 \in {poll_entry(e, txs, users, f, DefaultQuote)} :
             IF r0.priced
             THEN \E q \in Quotes : \E r \in {poll_entry(e, txs, users, f, q)} : Commit(e, r)
             ELSE Commit(e, r0)

\* the iteration, the tasks it dispatches observed through spawned only
HandleEntry ==
    /\ IterateEntry
    /\ UNCHANGED <<task, swap, reg>>

PollerNext == PollStart \/ HandleEntry

Init == PollerInit /\ task = NoTask /\ swap = NoSwap /\ reg = NoRequest
Next == PollerNext
Spec == Init /\ [][Next]_vars

\* ------------------------------------------------------------------ lockin.rs
RETRY_LIMIT == 3
CONFIRMATION_RETRIES == 5
MAX_SLIPPAGE_BPS == 2500
U16 == 65536
\* lamports
SMALL_FEE_LAMPORTS == 100000
GAS_FEES == 4000000
\* lamports per millionth of a SOL (LAMPORTS_PER_SOL = 10^9)
LAMPORTS_PER_MICRO == 1000
MICRO_PER_SOL == 1000000

\* inputs of one task
TaskAmounts == {100, 6000, 600000, 1500000}
Destinations == {"K1", "default"}
InitialSlippages == {100, 1500, 3000, 33000}
\* RPC answers
Balances == {0, 5000000, 2000000000}
Rents == {2039280}
\* simulateTransaction responses: result.err set, result.err null, no result at all
SimResponses ==
    { [has_result |-> TRUE,  err |-> "InstructionError"],
      [has_result |-> TRUE,  err |-> "null"],
      [has_result |-> FALSE, err |-> "null"] }

\* f64 -> u64 cast: saturating at 0
as_u64(x) == IF x < 0 THEN 0 ELSE x

total_fees(rent_exemption_fee) == GAS_FEES + rent_exemption_fee + SMALL_FEE_LAMPORTS

\* max_swap_amount, lamports, from the requested amount (millionths of a SOL)
max_swap_amount(amount, rent_exemption_fee) ==
    \* (amount * 0.9 - SMALL_FEE) * LAMPORTS_PER_SOL
    LET max_spendable_lamports == amount * ((9 * LAMPORTS_PER_MICRO) \div 10) - SMALL_FEE_LAMPORTS
    IN  as_u64(max_spendable_lamports - total_fees(rent_exemption_fee))

\* the check after the fee deduction: if max_swap_amount <= 0 (a u64)
insufficient_balanceNever(m) == FALSE
insufficient_balance(m) == m <= 0

\* simulation_response["result"]["err"].is_null(): indexing a missing key yields Null
sim_err_is_null(simulation_response) ==
    ~simulation_response.has_result \/ simulation_response.err = "null"

\* (slippage_bps * 2).min(MAX_SLIPPAGE_BPS) in u16, when the product wraps
next_slippage(slippage_bps) ==
    LET doubled == (slippage_bps * 2) % U16
    IN  IF doubled < MAX_SLIPPAGE_BPS THEN doubled ELSE MAX_SLIPPAGE_BPS

\* amount_to_withdraw as u64 at the caller: whole SOL, used as lamports
caller_refund_amount(amount) == as_u64(amount \div MICRO_PER_SOL)

\* confirm_transaction's test of one poll: Ok(response) with a non-null
\* "result" confirms; a null result and an Err(e) do not
poll_confirmsUnlessNull(answer) == answer # "null"
poll_confirms(answer) == answer = "result"

\* if attempt == RETRY_LIMIT - 1, in the Err arm of perform_swap
is_last_attemptNever(attempt) == FALSE
is_last_attempt(attempt) == attempt = RETRY_LIMIT - 1

\* what initiate_refund returns: Ok(()), the error of get_latest_blockhash, or
\* RefundError when send_and_confirm_transaction fails
refund_resultSwallowed(outcome) == "Ok"
refund_result(outcome) ==
    IF outcome = "ok" THEN "Ok"
    ELSE IF outcome = "blockhash_error" THEN "BlockhashError"
    ELSE "RefundError"

\* mutant: the closure is awaited by the poller instead of being spawned
NewTaskAwaited(t) ==
    [pc |-> "done", amount |-> t.amount, receiving_address |-> t.receiving_address,
     initial_slippage_bps |-> t.slippage_bps,
     sol_balance |-> 0, rent |-> 0, max_swap_amount |-> 0,
     slippage_bps |-> t.slippage_bps, attempt |-> 0, polls |-> 0,
     sim |-> "none", path |-> "new_failed", result |-> "NewFailed", confirmed |-> FALSE,
     quotes |-> <<>>, swaps |-> 0, instructions |-> 0, sims |-> 0, sends |-> 0,
     broadcasts |-> 0, rejections |-> 0, last_answer |-> "none", refunds |-> <<>>,
     logged |-> {"Failed to create LockinClient"}]
NewTask(t) ==
    [pc |-> "new", amount |-> t.amount, receiving_address |-> t.receiving_address,
     initial_slippage_bps |-> t.slippage_bps,
     sol_balance |-> 0, rent |-> 0, max_swap_amount |-> 0,
     slippage_bps |-> t.slippage_bps, attempt |-> 0, polls |-> 0,
     sim |-> "none", path |-> "none", result |-> "none", confirmed |-> FALSE,
     quotes |-> <<>>, swaps |-> 0, instructions |-> 0, sims |-> 0, sends |-> 0,
     broadcasts |-> 0, rejections |-> 0, last_answer |-> "none", refunds |-> <<>>,
     logged |-> {}]

TaskInit ==
    /\ PollerInit
    /\ swap = NoSwap
    /\ reg = NoRequest
    /\ task \in { NewTask([amount |-> a, receiving_address |-> d, slippage_bps |-> s]) :
                    a \in TaskAmounts, d \in Destinations, s \in InitialSlippages }

ReturnToRefund(t, res) == [t EXCEPT !.result = res, !.pc = "caller_refund"]
\* execute returns res to the match in the spawned closure: Ok is logged,
\* Err goes on to the caller's initiate_refund
Return(t, res) ==
    [t EXCEPT !.result = res, !.pc = IF res = "Ok" THEN "done" ELSE "caller_refund"]

\* LockinClient::new().await in the spawned closure
TaskNew ==
    /\ task.pc = "new"
    /\ \E ok \in BOOLEAN :
          task' = IF ok THEN [task EXCEPT !.pc = "get_balance"]
                  ELSE [task EXCEPT !.pc = "done", !.result = "NewFailed", !.path = "new_failed",
                                    !.logged = @ \cup {"Failed to create LockinClient"}]
    /\ UNCHANGED <<pollerVars, swap, reg>>

GetBalance ==
    /\ task.pc = "get_balance"
    /\ \/ \E b \in Balances : task' = [task EXCEPT !.sol_balance = b, !.pc = "get_rent"]
       \/ task' = Return([task EXCEPT !.path = "call_error"], "BalanceError")
    /\ UNCHANGED <<pollerVars, swap, reg>>

\* get_minimum_balance_for_rent_exemption, then the max_swap_amount check
GetRent ==
    /\ task.pc = "get_rent"
    /\ \/ \E r \in Rents :
            LET m == max_swap_amount(task.amount, r)
                t1 == [task EXCEPT !.rent = r, !.max_swap_amount = m]
            IN  task' = IF insufficient_balance(m)
                        THEN Return([t1 EXCEPT !.path = "insufficient"], "Ok")
                        ELSE [t1 EXCEPT !.pc = "get_quote"]
       \/ task' = Return([task EXCEPT !.path = "call_error"], "RentExemptionError")
    /\ UNCHANGED <<pollerVars, swap, reg>>

GetQuote ==
    /\ task.pc = "get_quote"
    /\ LET t1 == [task EXCEPT !.quotes = Append(@, task.slippage_bps), !.sim = "none"]
       IN  \/ task' = [t1 EXCEPT !.pc = "get_ata"]
           \/ task' = Return([t1 EXCEPT !.path = "call_error"], "QuoteError")
    /\ UNCHANGED <<pollerVars, swap, reg>>

GetAta ==
    /\ task.pc = "get_ata"
    /\ \/ task' = [task EXCEPT !.pc = "perform_swap"]
       \/ task' = Return([task EXCEPT !.path = "call_error"], "AtaError")
    /\ UNCHANGED <<pollerVars, swap, reg>>

NextAttemptUnbounded(t) == [t EXCEPT !.attempt = @ + 1, !.pc = "get_quote"]
\* the end of one iteration of for attempt in 0..RETRY_LIMIT that did not return
NextAttempt(t) ==
    IF t.attempt + 1 < RETRY_LIMIT
    THEN [t EXCEPT !.attempt = @ + 1, !.pc = "get_quote"]
    ELSE Return([t EXCEPT !.attempt = @ + 1, !.path = "exhausted"], "Ok")

PerformSwap ==
    /\ task.pc = "perform_swap"
    /\ LET t1 == [task EXCEPT !.swaps = @ + 1]
       IN  \/ task' = [t1 EXCEPT !.pc = "get_swap_instructions"]
           \/ task' = IF is_last_attempt(task.attempt)
                      THEN [t1 EXCEPT !.pc = "refund_swap", !.path = "swap_final"]
                      ELSE NextAttempt(t1)
    /\ UNCHANGED <<pollerVars, swap, reg>>

GetSwapInstructions ==
    /\ task.pc = "get_swap_instructions"
    /\ LET t1 == [task EXCEPT !.instructions = @ + 1]
       IN  \/ task' = [t1 EXCEPT !.pc = "create_transaction"]
           \/ task' = Return([t1 EXCEPT !.path = "call_error"], "SwapInstructionsError")
    /\ UNCHANGED <<pollerVars, swap, reg>>

CreateTransaction ==
    /\ task.pc = "create_transaction"
    /\ \/ task' = [task EXCEPT !.pc = "simulate"]
       \/ task' = Return([task EXCEPT !.path = "call_error"], "TransactionError")
    /\ UNCHANGED <<pollerVars, swap, reg>>

\* simulate_transaction and the branch on its response. checked: the build has
\* overflow checks, and slippage_bps * 2 panics when it exceeds u16.
Simulate ==
    /\ task.pc = "simulate"
    /\ \/ \E resp \in SimResponses, checked \in BOOLEAN :
            LET t1 == [task EXCEPT !.sims = @ + 1,
                                   !.sim = IF ~resp.has_result THEN "no_result"
                                           ELSE IF resp.err = "null" THEN "no_error"
                                           ELSE "error"]
            IN  task' = IF sim_err_is_null(resp) THEN [t1 EXCEPT !.pc = "send"]
                        ELSE IF checked /\ task.slippage_bps * 2 >= U16
                        THEN [t1 EXCEPT !.pc = "panicked", !.path = "panic"]
                        ELSE NextAttempt([t1 EXCEPT !.slippage_bps = next_slippage(@),
                                                    !.rejections = @ + 1])
       \/ task' = Return([task EXCEPT !.sims = @ + 1, !.path = "call_error"], "SimulateError")
    /\ UNCHANGED <<pollerVars, swap, reg>>

\* send_transaction; the signature is read with as_str().unwrap()
SendTransaction ==
    /\ task.pc = "send"
    /\ \/ \E has_signature \in BOOLEAN :
            task' = IF has_signature
                    THEN [task EXCEPT !.sends = @ + 1, !.broadcasts = @ + 1,
                                      !.pc = "confirm", !.polls = 0]
                    ELSE [task EXCEPT !.sends = @ + 1, !.pc = "panicked",
                                      !.path = "no_signature"]
       \/ task' = Return([task EXCEPT !.sends = @ + 1, !.path = "call_error"], "SendError")
    /\ UNCHANGED <<pollerVars, swap, reg>>

\* one iteration of confirm_transaction's loop
ConfirmPoll ==
    /\ task.pc = "confirm"
    /\ task.polls < CONFIRMATION_RETRIES
    /\ \E answer \in {"result", "null", "error"} :
          LET t1 == [task EXCEPT !.polls = @ + 1, !.last_answer = answer]
          IN  task' = IF poll_confirms(answer)
                      THEN Return([t1 EXCEPT !.confirmed = TRUE], "Ok")
                      ELSE IF t1.polls = CONFIRMATION_RETRIES
                      THEN [t1 EXCEPT !.pc = "refund_confirm", !.path = "confirm_false"]
                      ELSE t1
    /\ UNCHANGED <<pollerVars, swap, reg>>

\* initiate_refund: by names the call site
initiate_refund(t, by, recipient, amount, outcome) ==
    [t EXCEPT !.refunds = Append(@, [by |-> by, recipient |-> recipient,
                                     amount |-> amount, outcome |-> outcome])]

RefundOutcomes == {"ok", "blockhash_error", "transfer_error"}

\* self.initiate_refund(receiving_address, max_swap_amount).await? inside execute
ExecuteRefund ==
    /\ task.pc \in {"refund_confirm", "refund_swap"}
    /\ \E outcome \in RefundOutcomes :
          LET t1 == initiate_refund(task, "execute", task.receiving_address,
                                    task.max_swap_amount, outcome)
          IN  task' = IF refund_result(outcome) # "Ok" THEN Return(t1, refund_result(outcome))
                      ELSE IF task.pc = "refund_confirm"
                      THEN Return(t1, "TransactionConfirmationError")
                      ELSE Return(t1, "SwapError")
    /\ UNCHANGED <<pollerVars, swap, reg>>

\* Err(e) arm of the spawned closure: the error of execute is logged, then
\* initiate_refund(user_sol_address, amount_to_withdraw as u64), whose error is logged
CallerRefund ==
    /\ task.pc = "caller_refund"
    /\ \E outcome \in RefundOutcomes :
          task' = [initiate_refund(task, "caller", task.receiving_address,
                                   caller_refund_amount(task.amount), outcome)
                   EXCEPT !.pc = "done",
                          !.logged = @ \cup {task.result}
                                       \cup IF refund_result(outcome) # "Ok"
                                            THEN {"Error processing refund"} ELSE {}]
    /\ UNCHANGED <<pollerVars, swap, reg>>

TaskNext ==
    \/ TaskNew \/ GetBalance \/ GetRent \/ GetQuote \/ GetAta \/ PerformSwap
    \/ GetSwapInstructions \/ CreateTransaction \/ Simulate \/ SendTransaction
    \/ ConfirmPoll \/ ExecuteRefund \/ CallerRefund

TaskSpec == TaskInit /\ [][TaskNext]_vars

\* ------------------------------------------------------------------ poller and task together
\* The poller after an earlier cycle stored "Success" for the deposit a1, with
\* the last loop iteration of the run ahead; no task dispatched yet.
ConcInit ==
    /\ txs = [a \in Addresses |->
                 [user_id |-> IF a = "a1" THEN "u1" ELSE "u2",
                  status |-> IF a = "a1" THEN "Success" ELSE "Pending",
                  processed |-> FALSE,
                  has_processed |-> a = "a1"]]
    /\ users = [u \in UserIds |->
                    [total_deposit |-> 0, total_purchased |-> 0,
                     solana_public_key |-> IF u = "u1" THEN "K1" ELSE ""]]
    /\ pc = "idle"
    /\ remaining = 0
    /\ handled = MaxHandled - 1
    /\ sells = [a \in Addresses |-> 0]
    /\ credits = [a \in Addresses |-> 0]
    /\ procWrites = [a \in Addresses |-> 0]
    /\ spawned = [a \in Addresses |-> 0]
    /\ last = NoEntry
    /\ task = NoTask
    /\ swap = NoSwap
    /\ reg = NoRequest

\* the iteration, with the task its spawn() dispatches: tokio runs the spawned
\* future on its own, the JoinHandle is dropped. task follows the first task
\* dispatched.
HandleEntryDispatch ==
    /\ IterateEntry
    /\ task' = IF last'.spawn # {} /\ task = NoTask
               THEN NewTask(CHOOSE t \in last'.spawn : TRUE)
               ELSE task
    /\ UNCHANGED <<swap, reg>>

ConcNext == PollStart \/ HandleEntryDispatch \/ TaskNext
ConcSpec == ConcInit /\ [][ConcNext]_vars

\* ------------------------------------------------------------------ one execute_swap call
SwapPairs == {"BTCUSD", "SOLUSD"}
\* volumes in millionths of the asset, around the BTC minimum of 0.0001
SwapVolumes == {-1000, 0, 50, 99, 100, 1000}
SwapPrices == {<<1500, 1>>, <<60, 10>>, <<600, 0>>}

SwapInit ==
    /\ PollerInit
    /\ task = NoTask
    /\ reg = NoRequest
    /\ swap \in [pc : {"call"}, pair : SwapPairs, volume : SwapVolumes, prices : SwapPrices,
                 price_error : {"none"} \cup PriceErrors, order_fails : BOOLEAN,
                 res : {"none"}, err : {"none"}, submitted : {FALSE},
                 notional_sol_value : {Null}]

\* execute_swap(pair, side, volume).await
ExecuteSwap ==
    /\ swap.pc = "call"
    /\ LET r == execute_swap(swap.pair, swap.volume, swap.prices[1], swap.prices[2],
                             swap.price_error, swap.order_fails)
       IN  swap' = [swap EXCEPT !.pc = "returned", !.res = r.res, !.err = r.err,
                                !.submitted = r.submitted,
                                !.notional_sol_value = r.notional_sol_value]
    /\ UNCHANGED <<pollerVars, task, reg>>

SwapNext == ExecuteSwap
SwapSpec == SwapInit /\ [][SwapNext]_vars

\* ------------------------------------------------------------------ handlers/register.rs
\* user ids a request to /register may name: the stored users and one without document
RegisterIds == UserIds \cup {"u3"}
\* the public key generate_solana_wallet returns
GeneratedKey == "K2"

\* user_has_wallets: the Solana keys are present and non-empty
user_has_wallets(user) == user.solana_public_key # ""

\* the document replace_one stores: the User that find_one returned, with the
\* generated keys. struct User has no total_purchased field, so the stored
\* document carries none (0 here).
replacement(user) ==
    [total_deposit |-> user.total_deposit, total_purchased |-> 0,
     solana_public_key |-> GeneratedKey]

Respond(uid, status) == [pc |-> "done", user_id |-> uid, user |-> <<>>, status |-> status]

\* register up to the wallet check: find_one and user_has_wallets
RegisterFind ==
    /\ reg.pc = "none"
    /\ \E uid \in RegisterIds :
          \/ reg' = Respond(uid, "INTERNAL_SERVER_ERROR")
          \/ uid \notin DOMAIN users /\ reg' = Respond(uid, "NOT_FOUND")
          \/ /\ uid \in DOMAIN users
             /\ reg' = IF user_has_wallets(users[uid])
                       THEN Respond(uid, "BAD_REQUEST")
                       ELSE [pc |-> "generate", user_id |-> uid, user |-> users[uid],
                             status |-> "none"]
    /\ UNCHANGED <<pollerVars, task, swap>>

\* generate_and_save_wallets on the in-memory User, then replace_one
RegisterReplace ==
    /\ reg.pc = "generate"
    /\ \/ reg' = Respond(reg.user_id, "INTERNAL_SERVER_ERROR") /\ UNCHANGED users
       \/ /\ users' = [users EXCEPT ![reg.user_id] = replacement(reg.user)]
          /\ reg' = Respond(reg.user_id, "OK")
    /\ UNCHANGED <<txs, pc, remaining, handled, sells, credits, procWrites, spawned, last,
                   task, swap>>

\* the poller task and one request handler, both spawned on the same runtime
RegNext == PollStart \/ HandleEntry \/ RegisterFind \/ RegisterReplace
RegSpec == Init /\ [][RegNext]_vars

\* ------------------------------------------------------------------ the poller running on
\* a deposit the exchange reports in every response, with status "Success"
SteadyEntry == [info |-> "a1", amount |-> 1000, status |-> "Success", parse_ok |-> TRUE]

\* one iteration of the for loop of poll_kraken: a counted one, over any entry
\* with any failing call, or one over SteadyEntry in which every call succeeds
LiveIterate ==
    /\ pc = "cycle"
    /\ remaining > 0
    /\ \E e \in Entries : \E f \in CallsOf(e, txs) : \E counted \in BOOLEAN :
          /\ counted => handled < MaxHandled
          /\ ~counted => (e = SteadyEntry /\ f = "none")
          /\ handled' = IF counted THEN handled + 1 ELSE handled
          /\ \E r0 \in {poll_entry(e, txs, users, f, DefaultQuote)} :
                IF r0.priced /\ counted
                THEN \E q \in Quotes : \E r \in {poll_entry(e, txs, users, f, q)} :
                        Effects(e, r)
                ELSE Effects(e, r0)
    /\ UNCHANGED <<task, swap, reg>>

\* an iteration over SteadyEntry in which every external call succeeds
HandleSteadyEntry == handled' = handled /\ LiveIterate

\* start_poller's loop never ends: after MaxHandled iterations with arbitrary
\* entries and failures, the iterations left are those over SteadyEntry.
\* Weak fairness of the tick with a non-empty response, and of the iteration
\* over SteadyEntry (its enabling condition written out).
LiveNext == PollStart \/ LiveIterate
LiveSpec ==
    /\ Init /\ [][LiveNext]_vars
    /\ WF_vars(PollStart /\ remaining' > 0)
    /\ ([]<>(~(pc = "cycle" /\ remaining > 0)) \/ []<><<HandleSteadyEntry>>_vars)

\* ================================================================== claims
\* A step of the poller that ran one loop iteration of poll_kraken
Handled == handled' = handled + 1

\* C1: over any sequence of poll cycles and any outcomes of the external calls,
\* the BTCUSD sell order of the conversion chain is submitted at most once for a
\* given deposit address.
C1_SellAtMostOnce == \A a \in Addresses : sells[a] <= 1

\* C2: over any sequence of poll cycles and any outcomes of the external calls,
\* total_deposit is increased at most once per deposit address, also when the
\* conversion chain fails after the increment was written.
C2_CreditAtMostOnce == \A a \in Addresses : credits[a] <= 1

\* C3: an iteration over a reported deposit whose stored processed flag is
\* already true changes no user document (total_deposit stays), sends no
\* exchange request and dispatches no task.
C3_ReplayIdempotent ==
    [][ \A a \in Addresses :
          (Handled /\ last'.info = a /\ txs[a].has_processed /\ txs[a].processed)
          => /\ users' = users
             /\ credits' = credits /\ sells' = sells /\ spawned' = spawned
             /\ ~last'.credited /\ ~last'.chain /\ last'.steps = <<>> ]_vars

\* C3 witness: a deposit marked processed by one earlier run is reported again
\* with status "Success" and handled without error.
C3_Witness ==
    /\ handled > 0 /\ last.found /\ last.user_found /\ last.res = "Ok"
    /\ last.status = "Success" /\ last.stored_status = "Success" /\ last.stored_processed
    /\ procWrites[last.info] = 1

\* C4: a reported deposit with a matching record (and an owning user, no call
\* failing) is processed in the iteration - total_deposit incremented and the
\* conversion chain invoked - iff the freshly reported status is "Success" and
\* the stored processed flag is false.
C4_EligibleIffFreshSuccess ==
    (handled > 0 /\ last.found /\ last.user_found /\ last.res = "Ok")
    => ((last.credited /\ last.chain) <=> (last.status = "Success" /\ ~last.stored_processed))

\* C5: processed never goes from true back to false, and the write
\* {processed: true} is issued at most once per deposit address.
C5_ProcessedOnce ==
    [][ \A a \in Addresses :
          /\ (txs[a].has_processed /\ txs[a].processed)
                => (txs'[a].has_processed /\ txs'[a].processed)
          /\ procWrites'[a] <= 1 ]_vars

\* C6: total_deposit of every user is non-decreasing over any sequence of poll
\* cycles, whatever the exchange reports.
C6_TotalDepositMonotone ==
    [][ \A u \in UserIds : users'[u].total_deposit >= users[u].total_deposit ]_vars

\* C7: a dispatched per-deposit task that has ended without a confirmed swap
\* has made at least one refund attempt, whatever the reason it did not deliver.
C7_RefundCoverage ==
    (task.pc = "done" /\ ~task.confirmed) => Len(task.refunds) >= 1

\* C8: on each failing path that reserved funds (the simulation never passed
\* within RETRY_LIMIT attempts, the confirmation returned false, the swap
\* submission failed on the final attempt) the refund attempts made inside
\* execute and by the caller's error handler number exactly one.
C8_ExactlyOneRefund ==
    (task.pc = "done" /\ task.path \in {"exhausted", "confirm_false", "swap_final"})
    => Len(task.refunds) = 1

\* C9: execute broadcasts a transaction only after a simulation response of
\* the same attempt that reported no error - not after a reported error and
\* not after a response without a simulation result.
C9_BroadcastOnlyAfterCleanSimulation ==
    task.broadcasts > 0 => task.sim = "no_error"

\* C10: execute never broadcasts when the funding wallet's balance minus the
\* estimated fees and the rent-exemption minimum is 0 or less.
C10_NoBroadcastWithoutFunds ==
    task.broadcasts > 0 => task.sol_balance - total_fees(task.rent) > 0

\* C11: when max_swap_amount computes to 0 or less after the fee deduction,
\* execute returns an error outcome, not a success result.
C11_InsufficientIsError ==
    task.path = "insufficient" => task.result # "Ok"

\* C12: when max_swap_amount computes to 0 or less after the fee deduction,
\* execute makes no quote, swap or swap-instruction request and neither
\* simulates nor broadcasts a transaction.
C12_InsufficientMakesNoCall ==
    (task.pc \notin {"new", "get_balance", "get_rent"} /\ task.max_swap_amount <= 0)
    => /\ task.quotes = <<>> /\ task.swaps = 0 /\ task.instructions = 0
       /\ task.sims = 0 /\ task.sends = 0 /\ task.broadcasts = 0

\* C12 witness: execute has returned after the fee deduction left nothing to swap.
C12_Witness ==
    /\ task.pc = "done" /\ task.path = "insufficient"
    /\ task.rent > 0 /\ task.max_swap_amount = 0

\* C13: the slippage_bps sent in any quote request of execute never exceeds
\* MAX_SLIPPAGE_BPS, for every initial_slippage_bps and every attempt outcome.
C13_QuoteSlippageCapped ==
    \A i \in DOMAIN task.quotes : task.quotes[i] <= MAX_SLIPPAGE_BPS

Pow2(n) == IF n = 0 THEN 1 ELSE IF n = 1 THEN 2 ELSE IF n = 2 THEN 4 ELSE 8
MinOf(a, b) == IF a < b THEN a ELSE b

\* C14: after i simulation rejections slippage_bps equals
\* min(initial_slippage_bps * 2^i, MAX_SLIPPAGE_BPS), and slippage_bps never
\* decreases from one attempt to the next.
C14_SlippageEscalation ==
    [][ /\ (task'.pc # "panicked" /\ task'.rejections >= 1)
           => task'.slippage_bps =
                 MinOf(task'.initial_slippage_bps * Pow2(task'.rejections), MAX_SLIPPAGE_BPS)
        /\ task'.slippage_bps >= task.slippage_bps ]_vars

\* the refund attempts made inside execute
ExecuteRefunds == {i \in DOMAIN task.refunds : task.refunds[i].by = "execute"}

\* C15: when the confirmation monitor returns false, execute invokes refund
\* exactly once, for max_swap_amount and to the original destination, and then
\* returns the confirmation error whatever the outcome of the refund.
C15_ConfirmFalseRefundsThenFails ==
    (task.path = "confirm_false" /\ task.result # "none")
    => /\ Cardinality(ExecuteRefunds) = 1
       /\ \A i \in ExecuteRefunds :
             /\ task.refunds[i].amount = task.max_swap_amount
             /\ task.refunds[i].recipient = task.receiving_address
       /\ task.result = "TransactionConfirmationError"

\* C16: when all RETRY_LIMIT attempts end without a confirmed swap and without
\* a fatal refund, execute returns an error, not a success result.
C16_ExhaustedIsError ==
    task.path = "exhausted" => task.result # "Ok"

\* C17: the confirmation monitor polls at most CONFIRMATION_RETRIES times; it
\* returns true exactly at the first poll with a non-null result and polls no
\* more; it returns false, with no error and no crash, when none of the
\* CONFIRMATION_RETRIES polls has a non-null result, a failed poll counting as
\* a non-confirming one.
C17_ConfirmationMonitor ==
    /\ task.pc # "none" =>
          /\ task.polls <= CONFIRMATION_RETRIES
          /\ task.confirmed <=> task.last_answer = "result"
          /\ (task.pc = "confirm" /\ task.polls > 0) => task.last_answer \in {"null", "error"}
          /\ task.confirmed => (task.pc = "done" /\ task.result = "Ok")
          /\ task.path = "confirm_false"
                <=> (task.polls = CONFIRMATION_RETRIES /\ task.last_answer \in {"null", "error"})
          /\ task.path = "confirm_false" => task.pc # "panicked"

\* C17 witness: the monitor returned false after a final poll that failed with a
\* transport error.
C17_Witness ==
    /\ task.pc = "refund_confirm" /\ task.polls = CONFIRMATION_RETRIES
    /\ task.last_answer = "error" /\ ~task.confirmed

\* C18: within one poll cycle an error raised while handling one reported
\* deposit does not keep the deposits that follow it in the same exchange
\* response from being looked up and handled in that cycle.
C18_ErrorDoesNotSkipFollowing ==
    (handled > 0 /\ last.res = "Err") => last.skipped = 0

\* C19: whatever per-deposit failure occurs in a poll cycle, the poller task
\* has not crashed and goes on to further poll cycles.
C19_PollerNeverCrashes == pc # "crashed"

\* C20: execute_swap submits no order when volume is below the minimum of the
\* asset, and reports the rejection with an error the caller can tell apart
\* from the errors returned for network or API failures.
C20_VolumeTooSmallDistinct ==
    (swap.pc = "returned" /\ check_minimum_volume(pair_asset(swap.pair), swap.volume) = "Err")
    => /\ ~swap.submitted
       /\ swap.res = "Err"
       /\ swap.err \notin (PriceErrors \cup OrderErrors)

FullChain == <<"sell", "buy", "withdraw", "spawn">>

\* C21: processed is set to true only by an iteration in which the conversion
\* chain (sell, buy, withdraw, dispatch of the on-chain swap) was invoked for
\* the deposit; never for a deposit whose chain was skipped.
C21_ProcessedOnlyAfterChain ==
    (handled > 0 /\ last.mark_issued) => (last.chain /\ last.steps = FullChain)

\* C22: the steps of one deposit's conversion chain occur in the order sell,
\* buy, withdraw, dispatch of the on-chain swap, each after the previous one
\* returned successfully; a failed step keeps every later step from starting.
C22_ChainSequential ==
    handled > 0 =>
       /\ \E n \in 0..Len(FullChain) : last.steps = SubSeq(FullChain, 1, n)
       /\ last.failed_step = "sell" => last.steps \in {<<>>, <<"sell">>}
       /\ last.failed_step = "buy" => last.steps \in {<<"sell">>, <<"sell", "buy">>}
       /\ last.failed_step = "withdraw" => last.steps = <<"sell", "buy", "withdraw">>
       /\ last.failed_step # "none" => (last.res = "Err" /\ last.spawn = {})

\* C22 witness: the buy order was submitted after a successful sell and failed.
C22_Witness ==
    /\ handled > 0 /\ last.failed_step = "buy" /\ last.steps = <<"sell", "buy">>
    /\ last.res = "Err"

\* C28: the on-chain swap of a deposit is dispatched with the owning user's
\* registered on-chain address as destination, never with a substituted
\* default address.
C28_DestinationIsRegisteredAddress ==
    \A t \in last.spawn :
        /\ t.receiving_address \in ValidKeys
        /\ t.receiving_address = users[txs[last.info].user_id].solana_public_key

\* C29: handling a reported deposit that has no matching record changes no
\* record and no user, and makes no exchange order, withdrawal or dispatch.
C29_UnknownDepositSkipped ==
    [][ (Handled /\ last'.info = UnknownAddress)
        => /\ txs' = txs /\ users' = users
           /\ sells' = sells /\ credits' = credits /\ procWrites' = procWrites
           /\ spawned' = spawned
           /\ last'.steps = <<>> /\ last'.spawn = {} /\ ~last'.credited ]_vars

\* C29 witness: a deposit with no record was reported and skipped while some
\* other deposit is stored as successful and unprocessed.
C29_Witness ==
    /\ handled > 0 /\ last.info = UnknownAddress /\ ~last.found /\ last.res = "Ok"
    /\ \E a \in Addresses : txs[a].status = "Success" /\ ~txs[a].processed

\* C30: once the poller has handled a reported deposit that has a matching
\* record, the stored status equals the freshly reported one, whether or not
\* the deposit is eligible and whether or not its user is found.
C30_StoredStatusIsFresh ==
    (handled > 0 /\ last.found /\ last.res = "Ok") => txs[last.info].status = last.status

\* the refund attempt execute made, when it made exactly one
TheExecuteRefund(t) ==
    t.refunds[CHOOSE i \in DOMAIN t.refunds : t.refunds[i].by = "execute"]

\* a step of execute in which perform_swap returned an error
SwapErrored == task.pc = "perform_swap" /\ task'.pc # "get_swap_instructions"

\* C24 as stated: a swap-submission error on an attempt that is not the last
\* makes no refund and goes on to the next attempt; on the last attempt execute
\* invokes refund once for max_swap_amount to the destination and returns the
\* underlying swap error.
C24_SwapErrorAsStated ==
    [][ /\ (SwapErrored /\ task.attempt < RETRY_LIMIT - 1)
           => /\ task'.refunds = task.refunds
              /\ task'.pc = "get_quote" /\ task'.attempt = task.attempt + 1
        /\ (SwapErrored /\ task.attempt = RETRY_LIMIT - 1) => task'.pc = "refund_swap"
        /\ (task'.path = "swap_final" /\ task'.result # "none")
           => /\ Cardinality({i \in DOMAIN task'.refunds : task'.refunds[i].by = "execute"}) = 1
              /\ TheExecuteRefund(task').amount = task'.max_swap_amount
              /\ TheExecuteRefund(task').recipient = task'.receiving_address
              /\ task'.result = "SwapError" ]_vars

\* C24, amended: as above, but on the last attempt execute returns the
\* underlying swap error when the refund succeeded and the refund's own error
\* when the refund failed.
C24_SwapErrorRefund ==
    [][ /\ (SwapErrored /\ task.attempt < RETRY_LIMIT - 1)
           => /\ task'.refunds = task.refunds
              /\ task'.pc = "get_quote" /\ task'.attempt = task.attempt + 1
        /\ (SwapErrored /\ task.attempt = RETRY_LIMIT - 1) => task'.pc = "refund_swap"
        /\ (task'.path = "swap_final" /\ task'.result # "none")
           => /\ Cardinality({i \in DOMAIN task'.refunds : task'.refunds[i].by = "execute"}) = 1
              /\ TheExecuteRefund(task').amount = task'.max_swap_amount
              /\ TheExecuteRefund(task').recipient = task'.receiving_address
              /\ task'.result = IF TheExecuteRefund(task').outcome = "ok" THEN "SwapError"
                                ELSE IF TheExecuteRefund(task').outcome = "blockhash_error"
                                THEN "BlockhashError" ELSE "RefundError" ]_vars

\* C24 witness: perform_swap failed on attempts 0, 1 and 2, the refund went
\* through and execute returned the swap error.
C24_Witness ==
    /\ task.pc = "caller_refund" /\ task.path = "swap_final" /\ task.swaps = RETRY_LIMIT
    /\ task.result = "SwapError" /\ Len(task.refunds) = 1 /\ task.refunds[1].outcome = "ok"

\* C25: a quote request that fails on an attempt before the last one is retried
\* on the next attempt; execute does not end at the first quote failure.
C25_QuoteFailureRetried ==
    task.result = "QuoteError" => task.attempt = RETRY_LIMIT - 1

\* C26: every refund attempt, made inside execute or by the caller's error
\* handler, once execute has computed max_swap_amount, transfers exactly that
\* amount to the original destination address.
C26_RefundAmountIsMaxSwapAmount ==
    (task.pc # "none" /\ task.rent > 0) =>
       \A i \in DOMAIN task.refunds :
           /\ task.refunds[i].amount = task.max_swap_amount
           /\ task.refunds[i].recipient = task.receiving_address

\* C27: a refund that fails is reported: execute returns the refund's error,
\* never success or another error, when the refund it invoked failed, and the
\* task has logged the failure of every failed refund when it ends.
C27_RefundFailureReported ==
    task.pc # "none" =>
       \A i \in DOMAIN task.refunds :
           task.refunds[i].outcome # "ok" =>
              /\ task.refunds[i].by = "execute" =>
                    /\ task.result \in {"RefundError", "BlockhashError"}
                    /\ task.pc = "done" => task.result \in task.logged
              /\ (task.refunds[i].by = "caller" /\ task.pc = "done")
                    => "Error processing refund" \in task.logged

\* C27 witness: the refund execute invoked after an unconfirmed broadcast
\* failed, and so did the caller's refund.
C27_Witness ==
    /\ task.pc = "done" /\ task.path = "confirm_false" /\ Len(task.refunds) = 2
    /\ task.refunds[1].by = "execute" /\ task.refunds[1].outcome = "transfer_error"
    /\ task.refunds[2].by = "caller" /\ task.refunds[2].outcome = "transfer_error"

\* C23: the on-chain sequence of a deposit runs as a separate task. The
\* iteration that dispatches it ends with the task not yet started, having
\* written total_purchased and processed, and the poller goes on; afterwards
\* poller steps leave the task alone, task steps leave the poller's state
\* alone, and an unfinished task can always take its next step.
C23_TaskRunsOnItsOwn ==
    /\ [][ /\ (task = NoTask /\ task' # NoTask)
              => /\ Handled
                 /\ task'.pc = "new"
                 /\ pc' \in {"idle", "cycle"}
                 /\ last'.res = "Ok"
                       => /\ txs'[last'.info].processed
                          /\ users'[txs[last'.info].user_id].total_purchased
                                = users'[txs[last'.info].user_id].total_deposit
           /\ (task # NoTask /\ pollerVars' # pollerVars) => task' = task
           /\ (task # NoTask /\ task' # task) => pollerVars' = pollerVars ]_vars
    /\ [](task.pc \notin {"none", "done", "panicked"} => ENABLED TaskNext)

\* C23 witness: the dispatched task ran to a confirmed swap while the poller,
\* after the dispatching iteration, had started its next cycle.
C23_Witness ==
    /\ task.pc = "done" /\ task.confirmed
    /\ last.spawn # {} /\ handled = MaxHandled
    /\ pc = "cycle" /\ remaining = MaxReported

\* position of a step inside one attempt of execute, later steps lower
PcRank(p) ==
    CASE p = "new" -> 14 [] p = "get_balance" -> 13 [] p = "get_rent" -> 12
      [] p = "get_quote" -> 11 [] p = "get_ata" -> 10 [] p = "perform_swap" -> 9
      [] p = "get_swap_instructions" -> 8 [] p = "create_transaction" -> 7
      [] p = "simulate" -> 6 [] p = "send" -> 5 [] p = "confirm" -> 4
      [] p \in {"refund_confirm", "refund_swap"} -> 3 [] p = "caller_refund" -> 2
      [] OTHER -> 1

\* attempts left, then steps left in the attempt, then confirmation polls left
Rank(t) ==
    (RETRY_LIMIT - t.attempt) * 100 + PcRank(t.pc) * 6 + (CONFIRMATION_RETRIES - t.polls)

\* C32: every invocation of execute terminates within RETRY_LIMIT attempts:
\* at most 3 quote requests and at most 3 simulations are made, at most 5
\* confirmation polls for a broadcast transaction, and every step of the task
\* strictly lowers a non-negative rank, so no run of returning calls is endless.
C32_ExecuteTerminates ==
    /\ [](/\ task.attempt <= RETRY_LIMIT
          /\ Len(task.quotes) <= RETRY_LIMIT
          /\ task.sims <= RETRY_LIMIT
          /\ task.polls <= CONFIRMATION_RETRIES
          /\ Rank(task) >= 0)
    /\ [][task' # task => Rank(task') < Rank(task)]_vars

\* C32 witness: all three attempts were used, each with a quote and a rejected
\* simulation, and execute returned.
C32_Witness ==
    /\ task.pc = "done" /\ task.path = "exhausted"
    /\ Len(task.quotes) = RETRY_LIMIT /\ task.sims = RETRY_LIMIT

\* C33: execute broadcasts at most one transaction per invocation; once it has
\* broadcast, no further attempt starts (no quote, swap or simulation is
\* requested and nothing is sent again), and a confirmed swap is followed by
\* no refund, neither by execute nor by its caller.
C33_OneBroadcast ==
    /\ [](/\ task.broadcasts <= 1
          /\ task.confirmed => (task.refunds = <<>> /\ task.result = "Ok"))
    /\ [][ task.broadcasts = 1
             => /\ task'.attempt = task.attempt
                /\ task'.quotes = task.quotes /\ task'.swaps = task.swaps
                /\ task'.sims = task.sims /\ task'.sends = task.sends
                /\ task'.broadcasts = 1
                /\ (task'.pc = "done" /\ ~task'.confirmed)
                      => (/\ Len(task'.refunds) >= 1
                          /\ task'.refunds[1].by = "execute"
                          /\ task'.result \notin {"none", "Ok"}) ]_vars

\* C33 witness: the transaction broadcast in the second attempt was confirmed
\* and the task ended.
C33_Witness ==
    /\ task.pc = "done" /\ task.confirmed /\ task.broadcasts = 1 /\ task.attempt = 1

\* C37: when the broadcast call returns a response without a transaction
\* signature, execute returns an error to its caller; the task does not crash.
C37_RejectedBroadcastIsError ==
    task.path = "no_signature"
        => (task.pc # "panicked" /\ task.result \notin {"none", "Ok"})

\* C34: poll cycles never overlap and a cycle handles its deposits one at a
\* time: a cycle starts only when no cycle is running and none of the previous
\* cycle's entries is left, every iteration belongs to the running cycle and
\* takes exactly the next entry, and an iteration writes at most the one user
\* record of the deposit it handles.
C34_CyclesDoNotOverlap ==
    /\ [](/\ pc = "idle" => remaining = 0
          /\ pc = "cycle" => remaining \in 1..MaxReported)
    /\ [][ /\ remaining' > remaining
                => (pc = "idle" /\ remaining = 0 /\ handled' = handled /\ users' = users)
           /\ Handled
                => /\ pc = "cycle"
                   /\ remaining' \in {remaining - 1, 0}
                   /\ \A u \in UserIds :
                         users'[u] # users[u]
                            => (last'.found /\ u = txs[last'.info].user_id)
           /\ users' # users => Handled ]_vars

\* C34 witness: a cycle of two entries ran to its end, the second iteration
\* crediting a user, and the next cycle has started.
C34_Witness ==
    /\ handled = 2 /\ last.credited /\ last.res = "Ok"
    /\ pc = "cycle" /\ remaining = MaxReported

\* C35: when the handling of an eligible deposit (stored status "Success",
\* processed false) ends with an error, or a step of its chain failed, the
\* record's processed flag stays false, and with a reported status "Success"
\* the record is eligible again in the next cycle.
C35_ErrorLeavesUnprocessed ==
    [][ (/\ Handled
         /\ last'.found
         /\ last'.res = "Err" \/ last'.failed_step # "none"
         /\ should_process_transaction(txs[last'.info]))
            => /\ ~txs'[last'.info].processed
               /\ ~last'.mark_issued \/ last'.failed_step = "none"
               /\ last'.status = "Success" => should_process_transaction(txs'[last'.info]) ]_vars

\* C35 witness: the withdrawal of an eligible deposit failed after sell and buy,
\* and the record is still unprocessed.
C35_Witness ==
    /\ last.res = "Err" /\ last.failed_step = "withdraw" /\ last.credited
    /\ last.found /\ ~txs[last.info].processed /\ txs[last.info].status = "Success"

\* C36: total_purchased never exceeds total_deposit as long as total_deposit is
\* never lowered (reported amounts are non-negative): both start at 0, and every
\* step that does not lower a total_deposit keeps total_purchased <= total_deposit
\* for every user. total_purchased is written only by an iteration that
\* credited the deposit and dispatched its on-chain task, and gets the
\* total_deposit value that iteration wrote.
C36_PurchasedAtMostDeposit ==
    /\ \A u \in UserIds : users[u].total_purchased = 0 /\ users[u].total_deposit = 0
    /\ [][ /\ (/\ \A u \in UserIds : users[u].total_purchased <= users[u].total_deposit
               /\ \A u \in UserIds : users'[u].total_deposit >= users[u].total_deposit)
                => \A u \in UserIds : users'[u].total_purchased <= users'[u].total_deposit
           /\ \A u \in UserIds :
                 users'[u].total_purchased # users[u].total_purchased
                    => /\ Handled
                       /\ last'.found /\ u = txs[last'.info].user_id
                       /\ last'.credited
                       /\ last'.spawn # {}
                       /\ last'.steps[Len(last'.steps)] = "spawn"
                       /\ users'[u].total_purchased = users'[u].total_deposit ]_vars

\* C36 witness: a deposit was credited again after total_purchased was written,
\* so total_purchased is positive and below total_deposit.
C36_Witness ==
    \E u \in UserIds :
        /\ users[u].total_purchased > 0
        /\ users[u].total_purchased < users[u].total_deposit

\* C38: with the poller running on and its calls succeeding from some point,
\* the deposit a1, which has a record and an owning user and which the exchange
\* keeps reporting with status "Success" and a valid amount, eventually has
\* processed = true.
C38_EventuallyProcessed == <>(txs["a1"].processed)

\* C31: a write of the registration handler keeps what the poller wrote to the
\* user record: the step that replaces the document lowers no total_deposit.
C31_RegisterKeepsDeposit ==
    [][ (reg.pc = "generate" /\ reg'.pc = "done")
            => \A u \in UserIds : users'[u].total_deposit >= users[u].total_deposit ]_vars

====
